---- MODULE Spec2Model ----
(***************************************************************************)
(* A model of the Codeforces analytics dashboard (cf-tracker).             *)
(*                                                                         *)
(* Spec models the React component of src/unnamed/part_000 as a state      *)
(* machine: its useState cells, the fetches in flight and the handlers     *)
(* that start and complete them; SpecRated is the same component used for  *)
(* two rated users with every request answered; SpecAppJsx is the earlier  *)
(* component of src/src/App.jsx.  The other specifications (SpecRec,       *)
(* SpecTags, SpecPatterns, SpecKeys, SpecAnalytics, SpecOrder,             *)
(* SpecPerformance, SpecStreak, SpecStreakAppJsx, SpecContests) run one    *)
(* pure function of a component on inputs drawn from bounded sets.         *)
(*                                                                         *)
(* JavaScript values: an object is a record; a property that is undefined  *)
(* (a problem or a profile without rating) or NaN (a pattern's rating) is  *)
(* a record without that field; null is the record Null.  State updates    *)
(* made in one synchronous continuation are one step (React batches them). *)
(***************************************************************************)
EXTENDS Integers, Sequences, FiniteSets, Bags, TLC

VARIABLES
    handle,               \* useState: the handle typed into the input box
    userData,             \* useState: the profile, or Null
    loading,              \* useState
    allSubmissions,       \* useState: the submission list
    tableSubmissions,     \* useState submissions of src/src/App.jsx: the list of its table
    userContests,         \* useState: the rating history kept
    recommendedProblems,  \* useState
    problemLoading,       \* useState
    selectedTags,         \* useState: the tag filter
    difficultyRange,      \* useState: <<min, max>>
    inFlightData,         \* fetchData calls awaiting their two responses: handle -> count
    inFlightContests,     \* fetchUserContests calls awaiting their response: handle -> count
    inFlightProblems,     \* fetchRecommendedProblems calls awaiting the catalog: a sequence of argument records
    requested,            \* the handle of the latest fetchData call that passed its guard
    input,                \* the argument of the pure function under test
    output,               \* its result
    pc                    \* "app" in Spec; "ready" / "done" in the function specifications

vars == <<handle, userData, loading, allSubmissions, tableSubmissions, userContests, recommendedProblems,
          problemLoading, selectedTags, difficultyRange, inFlightData, inFlightContests,
          inFlightProblems, requested, input, output, pc>>

appVars == <<handle, userData, loading, allSubmissions, tableSubmissions, userContests, recommendedProblems,
             problemLoading, selectedTags, difficultyRange, inFlightData, inFlightContests,
             inFlightProblems, requested>>

----------------------------------------------------------------------------
(* JavaScript helpers *)

Null == [null |-> TRUE]

Defined(obj, field) == field \in DOMAIN obj

Includes(s, x) == \E i \in 1..Len(s) : s[i] = x

Abs(x) == IF x < 0 THEN 0 - x ELSE x

Min(a, b) == IF a < b THEN a ELSE b

Max(a, b) == IF a > b THEN a ELSE b

Slice(s, n) == SubSeq(s, 1, Min(n, Len(s)))

Reverse(s) == [i \in 1..Len(s) |-> s[Len(s) + 1 - i]]

RECURSIVE Concat(_)
Concat(ss) == IF ss = <<>> THEN <<>> ELSE Head(ss) \o Concat(Tail(ss))

Range(s) == {s[i] : i \in 1..Len(s)}

(* Array.prototype.sort with a comparator k(a) - k(b) on entries carrying   *)
(* their sort key in field k: stable, ascending (insertion from the left).  *)
RECURSIVE InsertByKey(_, _)
InsertByKey(x, sorted) ==
    IF sorted = <<>> THEN <<x>>
    ELSE IF Head(sorted).k <= x.k THEN <<Head(sorted)>> \o InsertByKey(x, Tail(sorted))
    ELSE <<x>> \o sorted

RECURSIVE StableSortByKey(_)
StableSortByKey(s) ==
    IF s = <<>> THEN <<>>
    ELSE InsertByKey(s[Len(s)], StableSortByKey(SubSeq(s, 1, Len(s) - 1)))

----------------------------------------------------------------------------
(* Counting into a JavaScript object: Object.entries lists the keys in the   *)
(* order of their first insertion, so the object is a sequence of entries.   *)

Count(obj, key) ==
    IF \E i \in 1..Len(obj) : obj[i].key = key
    THEN (CHOOSE e \in Range(obj) : e.key = key).n
    ELSE 0

Increment(obj, key) ==
    IF \E i \in 1..Len(obj) : obj[i].key = key
    THEN [i \in 1..Len(obj) |->
             IF obj[i].key = key THEN [key |-> key, n |-> obj[i].n + 1] ELSE obj[i]]
    ELSE Append(obj, [key |-> key, n |-> 1])

RECURSIVE CountAll(_, _)
CountAll(keys, obj) ==
    IF keys = <<>> THEN obj ELSE CountAll(Tail(keys), Increment(obj, Head(keys)))

(* a count that skips a submission on the problem of the one just before it *)
TagCountsSkippingRepeats(subs) ==
    CountAll(Concat([i \in 1..Len(subs) |->
                        IF i > 1 /\ subs[i].problem = subs[i - 1].problem
                        THEN <<>> ELSE subs[i].problem.tags]), <<>>)

(* tagStats / wrongTagStats: one increment per tag of every submission of the list *)
TagCounts(subs) ==
    CountAll(Concat([i \in 1..Len(subs) |-> subs[i].problem.tags]), <<>>)

IsOK(s) == s.verdict = "OK"

IsWrong(s) == s.verdict # "OK"

----------------------------------------------------------------------------
(* getWeakTags, getStrongTags *)

WeakTagsLimit == 5

MinAttempts == 3

(* a filter that takes a success rate of exactly one half for weak *)
IsWeakEntryAtHalf(tagStats, e) ==
    LET totalAttempts == Count(tagStats, e.key) + e.n
    IN  2 * Count(tagStats, e.key) <= totalAttempts /\ totalAttempts >= MinAttempts

IsWeakEntry(tagStats, e) ==
    LET totalAttempts == Count(tagStats, e.key) + e.n
        \* successRate < 0.5, the rate being solved / totalAttempts (0 when there is none)
        lowRate == IF totalAttempts > 0 THEN 2 * Count(tagStats, e.key) < totalAttempts
                   ELSE TRUE
    IN  lowRate /\ totalAttempts >= MinAttempts

getWeakTags(tagStats, wrongTagStats) ==
    LET kept   == SelectSeq(wrongTagStats, LAMBDA e : IsWeakEntry(tagStats, e))
        sorted == StableSortByKey([i \in 1..Len(kept) |-> [k |-> kept[i].n, v |-> kept[i]]])
        top    == Slice(sorted, WeakTagsLimit)
    IN  [i \in 1..Len(top) |-> top[i].v.key]

StrongTagsLimit == 5

(* a ranking in which, of two tags solved equally often, the one inserted *)
(* later comes first                                                      *)
getStrongTagsLatestFirst(tagStats) ==
    LET sorted == StableSortByKey([i \in 1..Len(tagStats) |->
                                      [k |-> 0 - Reverse(tagStats)[i].n,
                                       v |-> Reverse(tagStats)[i]]])
        top    == Slice(sorted, StrongTagsLimit)
    IN  [i \in 1..Len(top) |-> top[i].v.key]

getStrongTags(tagStats) ==
    LET sorted == StableSortByKey([i \in 1..Len(tagStats) |->
                                      [k |-> 0 - tagStats[i].n, v |-> tagStats[i]]])
        top    == Slice(sorted, StrongTagsLimit)
    IN  [i \in 1..Len(top) |-> top[i].v.key]

----------------------------------------------------------------------------
(* analyzeWrongSubmissionPatterns.  A key `${tag}-${bucket}` is kept as the  *)
(* list of its '-'-separated pieces, which is what key.split('-') returns:   *)
(* two keys are the same string exactly when they have the same pieces.      *)

PatternsLimit == 5

BucketWidth == 100

(* tag.split('-') for the tags of the model *)
SplitTag(tag) ==
    CASE tag = "2-sat" -> <<"2", "sat">>
      [] tag = "meet-in-the-middle" -> <<"meet", "in", "the", "middle">>
      [] OTHER -> <<tag>>

(* Math.round(rating / 100) * 100 for a rating >= 0: halves round up *)
RoundToBucket(rating) == ((2 * rating + BucketWidth) \div (2 * BucketWidth)) * BucketWidth

MaxBucket == 40

(* String(n) for every bucket value n = 0, 100, ..., MaxBucket * 100 *)
BucketStrings == [b \in 0..MaxBucket |-> ToString(b * BucketWidth)]

(* the text of the bucket in the key: "NaN" when the rating is undefined *)
BucketText(problem) ==
    IF Defined(problem, "rating")
    THEN BucketStrings[RoundToBucket(problem.rating) \div BucketWidth]
    ELSE "NaN"

PatternKey(tag, problem) == SplitTag(tag) \o <<BucketText(problem)>>

(* const [tag, rating] = key.split('-'); parseInt(rating): the number the    *)
(* second piece spells, no field when it spells none (NaN).  The pieces of   *)
(* the model are bucket texts, "NaN" and words without digits.               *)
ParsePattern(pieces) ==
    LET tag  == pieces[1]
        text == pieces[2]
    IN  IF \E b \in 0..MaxBucket : BucketStrings[b] = text
        THEN [tag |-> tag,
              rating |-> BucketWidth * (CHOOSE b \in 0..MaxBucket : BucketStrings[b] = text)]
        ELSE [tag |-> tag]

PatternKeys(wrongSubmissions) ==
    Concat([i \in 1..Len(wrongSubmissions) |->
               [j \in 1..Len(wrongSubmissions[i].problem.tags) |->
                   PatternKey(wrongSubmissions[i].problem.tags[j], wrongSubmissions[i].problem)]])

analyzeWrongSubmissionPatterns(wrongSubmissions) ==
    LET patterns == CountAll(PatternKeys(wrongSubmissions), <<>>)
        sorted   == StableSortByKey([i \in 1..Len(patterns) |->
                                        [k |-> 0 - patterns[i].n, v |-> patterns[i]]])
        top      == Slice(sorted, PatternsLimit)
    IN  [i \in 1..Len(top) |-> ParsePattern(top[i].v.key)]

----------------------------------------------------------------------------
(* calculateStreaks.  Time is counted in hours since the epoch (the code's   *)
(* seconds and milliseconds only scale it).  The local time zone is the      *)
(* browser's: its offset from UTC is 0 or 1 hour, and it may change once,    *)
(* at 02:00 local standard time of day zone.day ("spring": the clocks go    *)
(* forward, "autumn": they go back, "fixed": they never change).  Which zone *)
(* the browser is in is not the program's choice.                            *)

HoursPerDay == 24

ChangeHour == 2

(* the hours to add to UTC to get local time at the instant t *)
UtcOffset(zone, t) ==
    CASE zone.kind = "spring" -> IF t >= HoursPerDay * zone.day + ChangeHour THEN 1 ELSE 0
      [] zone.kind = "autumn" -> IF t < HoursPerDay * zone.day + ChangeHour - 1 THEN 1 ELSE 0
      [] OTHER -> 0

(* new Date(t).toDateString(): the local calendar day of the instant t *)
toDateString(zone, t) == (t + UtcOffset(zone, t)) \div HoursPerDay

(* new Date(dateStr): the instant of local midnight of that calendar day *)
DateOf(zone, day) ==
    CHOOSE t \in (HoursPerDay * day - 1)..(HoursPerDay * day) :
        t + UtcOffset(zone, t) = HoursPerDay * day

(* the Set of the date strings of the OK submissions *)
solvedDates(zone, submissions) ==
    {toDateString(zone, submissions[i].creationTimeSeconds) :
        i \in {j \in 1..Len(submissions) : IsOK(submissions[j])}}

RECURSIVE SortedInstants(_)
SortedInstants(instants) ==
    IF instants = {} THEN <<>>
    ELSE LET first == CHOOSE t \in instants : \A u \in instants : t <= u
         IN  <<first>> \o SortedInstants(instants \ {first})

(* Array.from(solvedDates).map(dateStr => new Date(dateStr)).sort((a, b) => a - b) *)
sortedDates(zone, submissions) ==
    SortedInstants({DateOf(zone, day) : day \in solvedDates(zone, submissions)})

(* the for loop: <<tempStreak, maxStreak>> after the pairs up to position i *)
RECURSIVE StreakLoop(_, _)
StreakLoop(dates, i) ==
    IF i <= 1 THEN <<1, 1>>
    ELSE LET before   == StreakLoop(dates, i - 1)
             diffTime == dates[i] - dates[i - 1]
         IN  IF diffTime = HoursPerDay                 \* diffDays === 1
             THEN <<before[1] + 1, Max(before[2], before[1] + 1)>>
             ELSE IF diffTime > HoursPerDay            \* diffDays > 1
             THEN <<1, before[2]>>
             ELSE before

(* the while loop: the days counted from checkDate backwards *)
RECURSIVE CurrentLoop(_, _, _)
CurrentLoop(zone, dates, checkDate) ==
    IF \E i \in 1..Len(dates) : toDateString(zone, dates[i]) = checkDate
    THEN 1 + CurrentLoop(zone, dates, checkDate - 1)
    ELSE 0

(* a calculateStreaks that starts counting at yesterday when today has no solve *)
calculateStreaksFromYesterday(zone, now, submissions) ==
    IF Len(submissions) = 0 THEN [current |-> 0, max |-> 0]
    ELSE LET dates == sortedDates(zone, submissions)
             today == toDateString(zone, now)
         IN  IF Len(dates) = 0 THEN [current |-> 0, max |-> 0]
             ELSE LET loop == StreakLoop(dates, Len(dates))
                  IN  [current |-> IF today \in solvedDates(zone, submissions)
                                   THEN CurrentLoop(zone, dates, today)
                                   ELSE CurrentLoop(zone, dates, today - 1),
                       max     |-> Max(loop[2], loop[1])]

(* now: the instant of the call *)
calculateStreaks(zone, now, submissions) ==
    IF Len(submissions) = 0 THEN [current |-> 0, max |-> 0]
    ELSE LET dates == sortedDates(zone, submissions)
         IN  IF Len(dates) = 0 THEN [current |-> 0, max |-> 0]
             ELSE LET loop == StreakLoop(dates, Len(dates))
                  IN  [current |-> CurrentLoop(zone, dates, toDateString(zone, now)),
                       max     |-> Max(loop[2], loop[1])]

----------------------------------------------------------------------------
(* the analytics memo: the fields the recommendation engine and the claims read *)

(* (x).toFixed(2) for x = numerator / denominator >= 0: the decimal text    *)
(* with two decimals, kept as the number of hundredths it spells ("66.67"   *)
(* is 6667).  toFixed takes the nearest such text, the larger at a tie; no  *)
(* quotient of the model is at a tie.                                       *)
toFixed2(numerator, denominator) ==
    (2 * 100 * numerator + denominator) \div (2 * denominator)

(* an accuracy that cuts the decimals after the second *)
accuracyTruncated(solved, total) ==
    IF total # 0 THEN (100 * 100 * Len(solved)) \div total ELSE 0

(* total ? ((solved.length / total) * 100).toFixed(2) : 0 *)
accuracy(solved, total) ==
    IF total # 0 THEN toFixed2(100 * Len(solved), total) ELSE 0

(* sub.problem.rating || 0 *)
RatingOrZero(problem) == IF Defined(problem, "rating") THEN problem.rating ELSE 0

(* solved.reduce((sum, sub) => sum + (sub.problem.rating || 0), 0) *)
RECURSIVE SumRatings(_)
SumRatings(solved) ==
    IF solved = <<>> THEN 0 ELSE RatingOrZero(Head(solved).problem) + SumRatings(Tail(solved))

(* solved.length > 0 ? Math.round(sum / solved.length) : 0 *)
averageDifficulty(solved) ==
    IF Len(solved) > 0
    THEN (2 * SumRatings(solved) + Len(solved)) \div (2 * Len(solved))
    ELSE 0

analytics(subs) ==
    IF Len(subs) = 0 THEN Null
    ELSE LET solved           == SelectSeq(subs, IsOK)
             wrongSubmissions == SelectSeq(subs, IsWrong)
             tagStats         == TagCounts(solved)
             wrongTagStats    == TagCounts(wrongSubmissions)
         IN  [solved              |-> Len(solved),
              total               |-> Len(subs),
              accuracy            |-> accuracy(solved, Len(subs)),
              averageDifficulty   |-> averageDifficulty(solved),
              tagStats            |-> tagStats,
              wrongTagStats       |-> wrongTagStats,
              strongTags          |-> getStrongTags(tagStats),
              weakTags            |-> getWeakTags(tagStats, wrongTagStats),
              wrongSubmissions    |-> wrongSubmissions,
              commonWrongPatterns |-> analyzeWrongSubmissionPatterns(wrongSubmissions),
              allSubmissions      |-> subs]

----------------------------------------------------------------------------
(* fetchRecommendedProblems: what it computes from the catalog it fetched *)

TargetOffset == 150

PatternTolerance == 200

RecommendLimit == 15

(* `${problem.contestId}${problem.index}` *)
ProblemId(problem) == ToString(problem.contestId) \o problem.index

SolvedProblems(analyticsData) ==
    {ProblemId(s.problem) : s \in Range(SelectSeq(analyticsData.allSubmissions, IsOK))}

HasWeakTags(problem, weakTags) ==
    \E i \in 1..Len(weakTags) : Includes(problem.tags, weakTags[i])

(* a range test that leaves the two ends of the range out *)
InDifficultyRangeExclusive(problem, range) ==
    /\ Defined(problem, "rating")
    /\ problem.rating # 0
    /\ problem.rating > range[1]
    /\ problem.rating < range[2]

(* problem.rating && problem.rating >= range[0] && problem.rating <= range[1] *)
InDifficultyRange(problem, range) ==
    /\ Defined(problem, "rating")
    /\ problem.rating # 0
    /\ problem.rating >= range[1]
    /\ problem.rating <= range[2]

HasSelectedTags(problem, tags) ==
    Len(tags) = 0 \/ \E i \in 1..Len(tags) : Includes(problem.tags, tags[i])

(* Math.abs(problem.rating - pattern.rating) <= 200 is false when either is undefined or NaN *)
NearPattern(problem, pattern) ==
    /\ Defined(problem, "rating")
    /\ Defined(pattern, "rating")
    /\ Abs(problem.rating - pattern.rating) <= PatternTolerance

MatchesPattern(problem, patterns) ==
    \E i \in 1..Len(patterns) :
        Includes(problem.tags, patterns[i].tag) /\ NearPattern(problem, patterns[i])

(* a first filter that takes every unsolved problem of the range and of  *)
(* the selected tags, weak tag or not                                    *)
weakTagProblemsOfAnyTag(analyticsData, tags, range, problems) ==
    SelectSeq(problems, LAMBDA problem :
        /\ InDifficultyRange(problem, range)
        /\ HasSelectedTags(problem, tags)
        /\ ProblemId(problem) \notin SolvedProblems(analyticsData))

weakTagProblems(analyticsData, tags, range, problems) ==
    SelectSeq(problems, LAMBDA problem :
        /\ HasWeakTags(problem, analyticsData.weakTags)
        /\ InDifficultyRange(problem, range)
        /\ HasSelectedTags(problem, tags)
        /\ ProblemId(problem) \notin SolvedProblems(analyticsData))

(* a pattern filter that lets solved problems through *)
similarProblemsWithSolved(analyticsData, problems) ==
    SelectSeq(problems, LAMBDA problem :
        MatchesPattern(problem, analyticsData.commonWrongPatterns))

similarProblems(analyticsData, problems) ==
    SelectSeq(problems, LAMBDA problem :
        /\ MatchesPattern(problem, analyticsData.commonWrongPatterns)
        /\ ProblemId(problem) \notin SolvedProblems(analyticsData))

(* [...weakTagProblems, ...similarProblems] *)
Candidates(analyticsData, tags, range, problems) ==
    weakTagProblems(analyticsData, tags, range, problems) \o similarProblems(analyticsData, problems)

(* a distance taken from the user's own rating *)
TargetDistanceFromRating(problem, userRating) == Abs(problem.rating - userRating)

(* Math.abs(problem.rating - (userRating + 150)) *)
TargetDistance(problem, userRating) == Abs(problem.rating - (userRating + TargetOffset))

(* a reason that looks at the wrong patterns before the weak tags *)
getRecommendationReasonPatternFirst(problem, weakTags, wrongPatterns) ==
    IF MatchesPattern(problem, wrongPatterns) THEN "Similar to frequently wrong problems"
    ELSE IF HasWeakTags(problem, weakTags) THEN "Targets your weak areas"
    ELSE "Matches your skill level"

getRecommendationReason(problem, weakTags, wrongPatterns) ==
    IF HasWeakTags(problem, weakTags) THEN "Targets your weak areas"
    ELSE IF MatchesPattern(problem, wrongPatterns) THEN "Similar to frequently wrong problems"
    ELSE "Matches your skill level"

ProblemUrl(problem) ==
    "https://codeforces.com/problemset/problem/" \o ToString(problem.contestId)
        \o "/" \o problem.index

(* the sorted and truncated candidates, before they are annotated *)
Ranked(analyticsData, userRating, tags, range, problems) ==
    LET all    == Candidates(analyticsData, tags, range, problems)
        sorted == StableSortByKey([i \in 1..Len(all) |->
                                      [k |-> TargetDistance(all[i], userRating), v |-> all[i]]])
    IN  Slice(sorted, RecommendLimit)

(* the list handed to setRecommendedProblems *)
Recommended(analyticsData, userRating, tags, range, problems) ==
    LET top == Ranked(analyticsData, userRating, tags, range, problems)
    IN  [i \in 1..Len(top) |->
            \* {...problem, url, recommendationReason}
            [url |-> ProblemUrl(top[i].v),
             recommendationReason |->
                 getRecommendationReason(top[i].v, analyticsData.weakTags,
                                         analyticsData.commonWrongPatterns)] @@ top[i].v]

----------------------------------------------------------------------------
(* fetchUserContests: what it keeps of the rating history it fetched *)

ContestsLimit == 20

(* data.result.reverse().slice(0, 20) *)
KeptContests(result) == Slice(Reverse(result), ContestsLimit)

----------------------------------------------------------------------------
(* The judge service, as the component sees it: fixed answers per handle.   *)

Problem(contestId, index, rating, tags) ==
    [contestId |-> contestId, index |-> index, rating |-> rating, tags |-> tags]

Unrated(contestId, index, tags) ==
    [contestId |-> contestId, index |-> index, tags |-> tags]

Submission(verdict, day, problem) ==
    [verdict |-> verdict, creationTimeSeconds |-> day, problem |-> problem]

(* the answer of problemset.problems *)
Catalog ==
    << Problem(1, "A", 1600, <<"dp">>),
       Problem(1, "B", 1800, <<"dp", "math">>),
       Problem(2, "A", 1200, <<"greedy">>),
       Unrated(2, "B", <<"dp">>),
       Problem(3, "A", 3000, <<"dp">>),
       Problem(3, "B", 1400, <<"dp", "greedy">>),
       Problem(4, "A", 1500, <<"dp">>),
       Problem(4, "B", 1700, <<"math", "dp">>),
       Problem(5, "A", 1650, <<"dp">>),
       Problem(5, "B", 1750, <<"dp">>),
       Problem(6, "A", 1550, <<"dp">>),
       Problem(6, "B", 900, <<"math">>) >>

Handles == {"alice", "bob"}

(* the handles of two rated users: alice and carol *)
RatedHandles == {"alice", "carol"}

(* user.info: alice and carol are rated, bob is not *)
Profile(h) ==
    CASE h = "alice" -> [handle |-> h, rating |-> 1500, rank |-> "specialist"]
      [] h = "carol" -> [handle |-> h, rating |-> 1300, rank |-> "pupil"]
      [] OTHER       -> [handle |-> h]

(* user.status *)
Submissions(h) ==
    CASE h = "alice" -> << Submission("WRONG_ANSWER", 3, Catalog[1]),
                           Submission("TIME_LIMIT_EXCEEDED", 2, Catalog[1]),
                           Submission("WRONG_ANSWER", 2, Catalog[1]),
                           Submission("OK", 1, Catalog[3]) >>
      [] h = "bob"   -> << Submission("OK", 2, Catalog[3]),
                           Submission("WRONG_ANSWER", 1, Catalog[3]) >>
      [] h = "carol" -> << Submission("WRONG_ANSWER", 3, Catalog[3]),
                           Submission("WRONG_ANSWER", 2, Catalog[3]),
                           Submission("WRONG_ANSWER", 1, Catalog[3]) >>
      [] OTHER       -> << >>

RatingChange(h, time, oldRating, newRating) ==
    [contestId |-> time, handle |-> h, ratingUpdateTimeSeconds |-> time,
     oldRating |-> oldRating, newRating |-> newRating]

AliceContests == 22

(* user.rating, newest first: alice has taken part in many rated contests, *)
(* carol in one, bob in none                                               *)
RatingHistory(h) ==
    CASE h = "alice" -> [i \in 1..AliceContests |->
                            RatingChange(h, AliceContests + 1 - i, 1500 - 10 * i, 1510 - 10 * i)]
      [] h = "carol" -> << RatingChange(h, 1, 0, 1300) >>
      [] OTHER       -> << >>

----------------------------------------------------------------------------
(* The component of part_000 *)

MaxInFlight == 2

DefaultMinRating == 800

DefaultMaxRating == 3500

(* what a response can be: fine, status other than "OK", unparsable JSON, or no response at all *)
Outcomes == {"OK", "FAILED", "malformed", "transport"}

TagFilters == {<<>>, <<"math">>}

DifficultyRanges == {<<DefaultMinRating, DefaultMaxRating>>, <<1500, 1700>>}

InitApp ==
    /\ handle = ""
    /\ userData = Null
    /\ loading = FALSE
    /\ allSubmissions = <<>>
    /\ tableSubmissions = <<>>
    /\ userContests = <<>>
    /\ recommendedProblems = <<>>
    /\ problemLoading = FALSE
    /\ selectedTags = <<>>
    /\ difficultyRange = <<DefaultMinRating, DefaultMaxRating>>
    /\ inFlightData = EmptyBag
    /\ inFlightContests = EmptyBag
    /\ inFlightProblems = EmptyBag
    /\ requested = ""

Init == InitApp /\ input = Null /\ output = Null /\ pc = "app"

One(x) == SetToBag({x})

(* userData?.rating, as a condition *)
HasRating(user) == user # Null /\ Defined(user, "rating") /\ user.rating # 0

(* the analytics memo is null exactly for the empty submission list *)
HasAnalytics(subs) == Len(subs) # 0

(* the guard of the effect and of fetchRecommendedProblems: a fetch starts *)
StartsRecommendation(subs, user) == HasAnalytics(subs) /\ HasRating(user)

(* the arguments of a call in flight; the analytics object handed over is   *)
(* the memo of the submission list, kept here by that list                  *)
RecommendationCall(subs, user, tags, range) ==
    [allSubmissions |-> subs, userRating |-> user.rating,
     selectedTags |-> tags, difficultyRange |-> range]

(* the effect on [analytics, userData, selectedTags, difficultyRange], run    *)
(* after a step that replaced one of them, with the values the step left      *)
RecommendationEffect(subs, user, tags, range) ==
    IF StartsRecommendation(subs, user)
    THEN /\ BagCardinality(inFlightProblems) < MaxInFlight
         /\ problemLoading' = TRUE
         /\ inFlightProblems' = inFlightProblems (+) One(RecommendationCall(subs, user, tags, range))
    ELSE UNCHANGED <<problemLoading, inFlightProblems>>

(* onChange of the input box *)
SetHandle(h) ==
    /\ pc = "app"
    /\ h # handle
    /\ handle' = h
    /\ UNCHANGED <<userData, loading, allSubmissions, userContests, recommendedProblems,
                   problemLoading, selectedTags, difficultyRange, inFlightData,
                   inFlightContests, inFlightProblems, requested, tableSubmissions, input, output, pc>>

(* fetchData with no handle: returns at once *)
AnalyzeNothing ==
    /\ pc = "app"
    /\ handle = ""
    /\ UNCHANGED vars

(* fetchData up to its await: the two requests leave *)
Analyze ==
    /\ pc = "app"
    /\ handle # ""
    /\ BagCardinality(inFlightData) < MaxInFlight
    /\ loading' = TRUE
    /\ inFlightData' = inFlightData (+) One(handle)
    /\ requested' = handle
    /\ UNCHANGED <<handle, userData, allSubmissions, userContests, recommendedProblems,
                   problemLoading, selectedTags, difficultyRange, inFlightContests,
                   inFlightProblems, tableSubmissions, input, output, pc>>

(* a fetchData that drops the answers of every call but the latest *)
fetchDataDoneLatestOnly(h) ==
    /\ pc = "app"
    /\ BagIn(h, inFlightData)
    /\ BagCardinality(inFlightContests) < MaxInFlight
    /\ inFlightData' = inFlightData (-) One(h)
    /\ IF h = requested
       THEN /\ userData' = Profile(h)
            /\ allSubmissions' = Submissions(h)
            /\ inFlightContests' = inFlightContests (+) One(h)
            /\ RecommendationEffect(Submissions(h), Profile(h), selectedTags, difficultyRange)
       ELSE UNCHANGED <<userData, allSubmissions, inFlightContests, problemLoading,
                        inFlightProblems>>
    /\ loading' = FALSE
    /\ UNCHANGED <<handle, userContests, recommendedProblems, selectedTags, difficultyRange,
                   requested, tableSubmissions, input, output, pc>>

(* fetchData after its await, both answers fine *)
fetchDataDone(h) ==
    /\ pc = "app"
    /\ BagIn(h, inFlightData)
    /\ BagCardinality(inFlightContests) < MaxInFlight
    /\ inFlightData' = inFlightData (-) One(h)
    /\ userData' = Profile(h)
    /\ allSubmissions' = Submissions(h)
    /\ inFlightContests' = inFlightContests (+) One(h)
    /\ RecommendationEffect(Submissions(h), Profile(h), selectedTags, difficultyRange)
    /\ loading' = FALSE
    /\ UNCHANGED <<handle, userContests, recommendedProblems, selectedTags, difficultyRange,
                   requested, tableSubmissions, input, output, pc>>

(* a fetchData that stores the profile as soon as the profile answer is fine *)
fetchDataFailedKeepsProfile(h, profile, status) ==
    /\ pc = "app"
    /\ BagIn(h, inFlightData)
    /\ profile # "OK" \/ status # "OK"
    /\ inFlightData' = inFlightData (-) One(h)
    /\ userData' = IF profile = "OK" THEN Profile(h) ELSE userData
    /\ loading' = FALSE
    /\ UNCHANGED <<handle, allSubmissions, userContests, recommendedProblems,
                   problemLoading, selectedTags, difficultyRange, inFlightContests,
                   inFlightProblems, requested, tableSubmissions, input, output, pc>>

(* fetchData after its await, one answer or both not fine *)
fetchDataFailed(h, profile, status) ==
    /\ pc = "app"
    /\ BagIn(h, inFlightData)
    /\ profile # "OK" \/ status # "OK"
    /\ inFlightData' = inFlightData (-) One(h)
    /\ loading' = FALSE
    /\ UNCHANGED <<handle, userData, allSubmissions, userContests, recommendedProblems,
                   problemLoading, selectedTags, difficultyRange, inFlightContests,
                   inFlightProblems, requested, tableSubmissions, input, output, pc>>

(* fetchUserContests after its await, the answer fine *)
fetchUserContestsDone(h) ==
    /\ pc = "app"
    /\ BagIn(h, inFlightContests)
    /\ inFlightContests' = inFlightContests (-) One(h)
    /\ userContests' = KeptContests(RatingHistory(h))
    /\ UNCHANGED <<handle, userData, loading, allSubmissions, recommendedProblems,
                   problemLoading, selectedTags, difficultyRange, inFlightData,
                   inFlightProblems, requested, tableSubmissions, input, output, pc>>

(* fetchUserContests after its await, the answer not fine *)
fetchUserContestsFailed(h, outcome) ==
    /\ pc = "app"
    /\ BagIn(h, inFlightContests)
    /\ outcome # "OK"
    /\ inFlightContests' = inFlightContests (-) One(h)
    /\ UNCHANGED <<handle, userData, loading, allSubmissions, userContests,
                   recommendedProblems, problemLoading, selectedTags, difficultyRange,
                   inFlightData, inFlightProblems, requested, tableSubmissions, input, output, pc>>

(* fetchRecommendedProblems after its await, the catalog fine *)
fetchRecommendedProblemsDone(call) ==
    /\ pc = "app"
    /\ BagIn(call, inFlightProblems)
    /\ inFlightProblems' = inFlightProblems (-) One(call)
    /\ recommendedProblems' = Recommended(analytics(call.allSubmissions), call.userRating,
                                          call.selectedTags, call.difficultyRange, Catalog)
    /\ problemLoading' = FALSE
    /\ UNCHANGED <<handle, userData, loading, allSubmissions, userContests, selectedTags,
                   difficultyRange, inFlightData, inFlightContests, requested,
                   tableSubmissions, input, output, pc>>

(* fetchRecommendedProblems after its await, the catalog not fine *)
fetchRecommendedProblemsFailed(call, outcome) ==
    /\ pc = "app"
    /\ BagIn(call, inFlightProblems)
    /\ outcome # "OK"
    /\ inFlightProblems' = inFlightProblems (-) One(call)
    /\ problemLoading' = FALSE
    /\ UNCHANGED <<handle, userData, loading, allSubmissions, userContests,
                   recommendedProblems, selectedTags, difficultyRange, inFlightData,
                   inFlightContests, requested, tableSubmissions, input, output, pc>>

(* setSelectedTags: a new array, so the effect runs *)
SetSelectedTags(tags) ==
    /\ pc = "app"
    /\ selectedTags' = tags
    /\ RecommendationEffect(allSubmissions, userData, tags, difficultyRange)
    /\ UNCHANGED <<handle, userData, loading, allSubmissions, userContests,
                   recommendedProblems, difficultyRange, inFlightData, inFlightContests,
                   requested, tableSubmissions, input, output, pc>>

(* setDifficultyRange: a new array, so the effect runs *)
SetDifficultyRange(range) ==
    /\ pc = "app"
    /\ difficultyRange' = range
    /\ RecommendationEffect(allSubmissions, userData, selectedTags, range)
    /\ UNCHANGED <<handle, userData, loading, allSubmissions, userContests,
                   recommendedProblems, selectedTags, inFlightData, inFlightContests,
                   requested, tableSubmissions, input, output, pc>>

(* the page of part_000 has no element that calls setSelectedTags or         *)
(* setDifficultyRange: Next leaves the two filters alone, NextFiltered does  *)
(* not                                                                       *)
Next ==
    \/ \E h \in Handles \cup {""} : SetHandle(h)
    \/ AnalyzeNothing
    \/ Analyze
    \/ \E h \in Handles : fetchDataDone(h)
    \/ \E h \in Handles, profile \in Outcomes, status \in Outcomes :
           fetchDataFailed(h, profile, status)
    \/ \E h \in Handles : fetchUserContestsDone(h)
    \/ \E h \in Handles, outcome \in Outcomes : fetchUserContestsFailed(h, outcome)
    \/ \E call \in BagToSet(inFlightProblems) : fetchRecommendedProblemsDone(call)
    \/ \E call \in BagToSet(inFlightProblems), outcome \in Outcomes :
           fetchRecommendedProblemsFailed(call, outcome)

Spec == Init /\ [][Next]_vars

NextFiltered ==
    \/ Next
    \/ \E tags \in TagFilters : SetSelectedTags(tags)
    \/ \E range \in DifficultyRanges : SetDifficultyRange(range)

SpecFiltered == Init /\ [][NextFiltered]_vars

(* the component used for rated users only, every request answered with    *)
(* status OK                                                              *)
NextRated ==
    \/ \E h \in RatedHandles : SetHandle(h)
    \/ AnalyzeNothing
    \/ Analyze
    \/ \E h \in RatedHandles : fetchDataDone(h)
    \/ \E h \in RatedHandles : fetchUserContestsDone(h)
    \/ \E call \in BagToSet(inFlightProblems) : fetchRecommendedProblemsDone(call)

SpecRated == Init /\ [][NextRated]_vars

----------------------------------------------------------------------------
(* Claims about the component (Spec) *)

NothingInFlight ==
    /\ inFlightData = EmptyBag
    /\ inFlightContests = EmptyBag
    /\ inFlightProblems = EmptyBag

(* the step in which the answers of a fetchData for h are applied *)
AppliesData(h) ==
    /\ \E g \in Handles : fetchDataDone(g)
    /\ inFlightData' = inFlightData (-) One(h)
    /\ userData' = Profile(h)
    /\ allSubmissions' = Submissions(h)
    /\ inFlightContests' = inFlightContests (+) One(h)

(* the step in which the answer of a fetchUserContests for h is applied *)
AppliesContests(h) ==
    /\ \E g \in Handles : fetchUserContestsDone(g)
    /\ inFlightContests' = inFlightContests (-) One(h)
    /\ userContests' = KeptContests(RatingHistory(h))

(* C1: no fetch cycle is cancelled or discarded.  Whatever handle was        *)
(* requested last, every fetchData in flight can still have its answers      *)
(* applied (profile, submissions, and the contest fetch it starts), and so   *)
(* can every fetchUserContests in flight: a cycle for A that is overtaken by *)
(* a cycle for B overwrites B's data when its answers come last.             *)
C1_StaleCycleStillApplies ==
    /\ \A h \in Handles :
           ( /\ BagIn(h, inFlightData)
             /\ BagCardinality(inFlightContests) < MaxInFlight
             /\ BagCardinality(inFlightProblems) < MaxInFlight )
           => ENABLED AppliesData(h)
    /\ \A h \in Handles :
           BagIn(h, inFlightContests) => ENABLED AppliesContests(h)

(* C1: B was requested last and its answers are applied, while the cycle for A is still in flight *)
C1_Witness ==
    /\ requested = "bob"
    /\ userData = Profile("bob")
    /\ allSubmissions = Submissions("bob")
    /\ BagIn("alice", inFlightData)
    /\ BagCardinality(inFlightContests) < MaxInFlight
    /\ BagCardinality(inFlightProblems) < MaxInFlight

(* the data of one handle, or the initial nothing *)
DataOfOneHandle ==
    \/ userData = Null /\ allSubmissions = <<>>
    \/ \E h \in Handles : userData = Profile(h) /\ allSubmissions = Submissions(h)

C2_Step ==
    /\ \A h \in Handles :
           (\E profile, status \in Outcomes : fetchDataFailed(h, profile, status)) =>
               /\ UNCHANGED <<userData, allSubmissions, inFlightContests, inFlightProblems>>
               /\ inFlightData' = inFlightData (-) One(h)
    /\ (userData' # userData \/ allSubmissions' # allSubmissions) =>
           \E h \in Handles :
               /\ BagIn(h, inFlightData)
               /\ userData' = Profile(h)
               /\ allSubmissions' = Submissions(h)
    /\ DataOfOneHandle'

(* C2: a fetchData one of whose answers is not fine (no answer, unparsable,  *)
(* status other than "OK") sets neither userData nor allSubmissions, starts  *)
(* no contest fetch and puts no request back in flight; userData and         *)
(* allSubmissions change only together, to the answers of one call.          *)
C2_FailureSetsNothing == [][C2_Step]_vars

(* C2: a fetchData for alice has come and gone and left no data behind *)
C2_Witness ==
    /\ requested = "alice"
    /\ inFlightData = EmptyBag
    /\ userData = Null
    /\ allSubmissions = <<>>
    /\ inFlightContests = EmptyBag
    /\ loading = FALSE

(* C3: when the profile has no rating or there is no analytics snapshot, no  *)
(* recommendation is being computed and recommendedProblems is empty.        *)
C3_NoRecommendationsWithoutRating ==
    (~HasRating(userData) \/ analytics(allSubmissions) = Null) =>
        recommendedProblems = <<>>

(* C21: whenever no recommendation fetch is in flight, the analytics memo  *)
(* is non-null and the user has a rating, recommendedProblems is the list  *)
(* fetchRecommendedProblems computes from the current analytics, rating,   *)
(* selectedTags and difficultyRange: no answer to a fetch started for      *)
(* earlier inputs remains as the result (every fetch answered with OK)     *)
C21_RecommendationsOfCurrentInputs ==
    (inFlightProblems = EmptyBag /\ HasAnalytics(allSubmissions) /\ HasRating(userData)) =>
        recommendedProblems = Recommended(analytics(allSubmissions), userData.rating,
                                          selectedTags, difficultyRange, Catalog)

(* C22: loading is true exactly while some fetchData started with a        *)
(* non-empty handle has not completed, also when Analyze is invoked again  *)
(* during a fetch and when a fetch fails (fetchData with an empty handle,  *)
(* AnalyzeNothing, starts no cycle and changes nothing)                    *)
C22_LoadingTracksFetches == loading <=> (inFlightData # EmptyBag)

----------------------------------------------------------------------------
(* Specifications of single functions: Init draws the argument, one step    *)
(* runs the function.  The component's own state stays as constructed       *)
(* unless the function sets it.                                             *)

SeqsUpTo(S, n) == UNION {[1..k -> S] : k \in 0..n}

FunctionDone(result) ==
    /\ pc = "ready"
    /\ pc' = "done"
    /\ output' = result

----------------------------------------------------------------------------
(* SpecStreak: calculateStreaks *)

MaxDay == 5

MaxStreakSubs == 4

ZoneDay == 2

NoonHour == 12

Noon(day) == HoursPerDay * day + NoonHour

StreakProblem == Problem(1, "A", 1600, <<"dp">>)

StreakSubmissions ==
    {Submission("OK", Noon(day), StreakProblem) : day \in 1..MaxDay}
        \cup {Submission("WRONG_ANSWER", Noon(MaxDay), StreakProblem)}

Zones == {[kind |-> "fixed"], [kind |-> "spring", day |-> ZoneDay],
          [kind |-> "autumn", day |-> ZoneDay]}

InitStreak ==
    /\ InitApp
    /\ pc = "ready"
    /\ output = Null
    /\ input \in [zone : Zones,
                  now : {Noon(MaxDay), Noon(MaxDay + 1)},
                  submissions : SeqsUpTo(StreakSubmissions, MaxStreakSubs)]

CallCalculateStreaks ==
    /\ FunctionDone(calculateStreaks(input.zone, input.now, input.submissions))
    /\ UNCHANGED <<appVars, input>>

NextStreak == CallCalculateStreaks

SpecStreak == InitStreak /\ [][NextStreak]_vars

(* the calendar days of the argument that have an OK submission *)
SolvedDays ==
    {toDateString(input.zone, s.creationTimeSeconds) :
        s \in {x \in Range(input.submissions) : x.verdict = "OK"}}

Today == toDateString(input.zone, input.now)

IsRun(first, length, days) == \A j \in 0..(length - 1) : first + j \in days

(* the length of the longest run of consecutive days in the set *)
LongestRun(days) ==
    IF days = {} THEN 0
    ELSE CHOOSE n \in 1..Cardinality(days) :
             /\ \E d \in days : IsRun(d, n, days)
             /\ \A m \in (n + 1)..Cardinality(days) : ~ \E d \in days : IsRun(d, m, days)

(* the number of consecutive days of the set, counted backward from the day *)
RunEndingAt(day, days) ==
    CHOOSE n \in 0..Cardinality(days) :
        /\ \A j \in 0..(n - 1) : day - j \in days
        /\ day - n \notin days

(* C5: streaks.max is the length of the longest run of consecutive calendar *)
(* days that each have an OK submission, whatever the order of the list;    *)
(* 0 when no submission is OK.                                              *)
C5_MaxIsLongestRun ==
    pc = "done" => output.max = LongestRun(SolvedDays)

(* C6: streaks.current is the number of consecutive calendar days with an   *)
(* OK submission counted backward from today inclusive: 0 when today has    *)
(* none, whatever the earlier days hold.                                    *)
C6_CurrentCountsBackFromToday ==
    pc = "done" =>
        /\ output.current = RunEndingAt(Today, SolvedDays)
        /\ Today \notin SolvedDays => output.current = 0

(* C6: yesterday and the day before are solved, today is not, and the streak is 0 *)
C6_Witness ==
    /\ pc = "done"
    /\ Today \notin SolvedDays
    /\ Today - 1 \in SolvedDays
    /\ Today - 2 \in SolvedDays
    /\ output.current = 0

----------------------------------------------------------------------------
(* SpecContests: fetchUserContests on a rating history of any length *)

MaxHistory == 22

HistoryStarts == {1400, 1500}

HistorySteps == {0 - 10, 25}

(* a rating history as the service sends it: newest record first *)
History(n, start, step) ==
    [i \in 1..n |->
        RatingChange("alice", n + 1 - i, start + step * (n - i), start + step * (n + 1 - i))]

InitContests ==
    /\ InitApp
    /\ pc = "ready"
    /\ output = Null
    /\ input \in {History(n, start, step) :
                     n \in 0..MaxHistory, start \in HistoryStarts, step \in HistorySteps}

(* fetchUserContests, the answer fine *)
CallFetchUserContests ==
    /\ FunctionDone("OK")
    /\ userContests' = KeptContests(input)
    /\ UNCHANGED <<handle, userData, loading, allSubmissions, recommendedProblems,
                   problemLoading, selectedTags, difficultyRange, inFlightData,
                   inFlightContests, inFlightProblems, requested, tableSubmissions, input>>

(* fetchUserContests, the answer not fine *)
CallFetchUserContestsFailed(outcome) ==
    /\ outcome # "OK"
    /\ FunctionDone(outcome)
    /\ UNCHANGED <<appVars, input>>

NextContests ==
    \/ CallFetchUserContests
    \/ \E outcome \in Outcomes : CallFetchUserContestsFailed(outcome)

SpecContests == InitContests /\ [][NextContests]_vars

(* the k most recent records of a history *)
MostRecent(history, k) ==
    {r \in Range(history) :
        Cardinality({q \in Range(history) :
            q.ratingUpdateTimeSeconds > r.ratingUpdateTimeSeconds}) < k}

(* kept lists exactly the records of the set, oldest first *)
ListsOldestFirst(kept, records) ==
    /\ Range(kept) = records
    /\ Len(kept) = Cardinality(records)
    /\ \A i, j \in 1..Len(kept) :
           i < j => kept[i].ratingUpdateTimeSeconds < kept[j].ratingUpdateTimeSeconds

(* C4: after a successful fetchUserContests on a newest-first history of n  *)
(* records, userContests holds the min(n, 20) most recent records, oldest   *)
(* first; for n > 20 the older n - 20 are the ones dropped.                 *)
C4_KeepsMostRecent ==
    (pc = "done" /\ output = "OK") =>
        ListsOldestFirst(userContests, MostRecent(input, ContestsLimit))

----------------------------------------------------------------------------
(* SpecTags: the analytics memo on submission lists over three problems,    *)
(* one of them with six tags                                                *)

MaxTagSubs == 5

TagProblems ==
    { Problem(10, "A", 1600,
              <<"dp", "greedy", "math", "graphs", "strings", "implementation">>),
      Problem(10, "B", 1250, <<"dp", "greedy">>),
      Problem(10, "C", 1190, <<"math">>) }

TagSubmissions ==
    {Submission(verdict, 0, problem) :
        verdict \in {"OK", "WRONG_ANSWER"}, problem \in TagProblems}

InitTags ==
    /\ InitApp
    /\ pc = "ready"
    /\ output = Null
    /\ input \in SeqsUpTo(TagSubmissions, MaxTagSubs)

(* the memo recomputed for the submission list *)
CallAnalytics ==
    /\ FunctionDone(analytics(input))
    /\ UNCHANGED <<appVars, input>>

NextTags == CallAnalytics

SpecTags == InitTags /\ [][NextTags]_vars

Keys(obj) == {obj[i].key : i \in 1..Len(obj)}

(* the tags that qualify as weak, by the rule of the claim *)
QualifiesAsWeak(tagStats, wrongTagStats) ==
    {tag \in Keys(wrongTagStats) :
        LET solved == Count(tagStats, tag)
            wrong  == Count(wrongTagStats, tag)
        IN  /\ solved + wrong >= 3
            /\ 2 * solved < solved + wrong}

C7_WeakTags(tagStats, wrongTagStats, weakTags) ==
    LET qualifying == QualifiesAsWeak(tagStats, wrongTagStats)
    IN  /\ Range(weakTags) \subseteq qualifying
        /\ Len(weakTags) = Cardinality(Range(weakTags))
        /\ Len(weakTags) = Min(Cardinality(qualifying), 5)
        /\ \A kept \in Range(weakTags), dropped \in qualifying \ Range(weakTags) :
               Count(wrongTagStats, kept) <= Count(wrongTagStats, dropped)
        /\ \A i, j \in 1..Len(weakTags) :
               i < j => Count(wrongTagStats, weakTags[i]) <= Count(wrongTagStats, weakTags[j])

(* C7: getWeakTags returns only tags of wrongTagStats with solved + wrong   *)
(* >= 3 and solved / (solved + wrong) < 0.5; all of them when they are at   *)
(* most 5, else the 5 with the smallest wrong counts; ascending by wrong    *)
(* count.  2 solved and 3 wrong is weak, 1 solved and 1 wrong is not.       *)
C7_WeakTagsRule ==
    (pc = "done" /\ output # Null) =>
        /\ output.weakTags = getWeakTags(output.tagStats, output.wrongTagStats)
        /\ C7_WeakTags(output.tagStats, output.wrongTagStats, output.weakTags)
        /\ \A tag \in Keys(output.wrongTagStats) :
               /\ (Count(output.tagStats, tag) = 2 /\ Count(output.wrongTagStats, tag) = 3)
                      => /\ IsWeakEntry(output.tagStats, [key |-> tag, n |-> 3])
                         /\ \/ tag \in Range(output.weakTags)
                            \/ /\ Len(output.weakTags) = 5
                               /\ \A kept \in Range(output.weakTags) :
                                      Count(output.wrongTagStats, kept) <= 3
               /\ (Count(output.tagStats, tag) = 1 /\ Count(output.wrongTagStats, tag) = 1)
                      => tag \notin Range(output.weakTags)

(* C7: six tags qualify with different wrong counts, and one of the two with the most is left out *)
C7_Witness ==
    /\ pc = "done"
    /\ output # Null
    /\ Cardinality(QualifiesAsWeak(output.tagStats, output.wrongTagStats)) = 6
    /\ Len(output.weakTags) = 5
    /\ Count(output.wrongTagStats, output.weakTags[1]) = 3
    /\ Count(output.wrongTagStats, output.weakTags[5]) = 4

----------------------------------------------------------------------------
(* SpecRec: one call of fetchRecommendedProblems, from its guard to the     *)
(* list it sets, on the catalog of the service                              *)

MaxRecSubs == 4

RecSubmissions ==
    { Submission("WRONG_ANSWER", 0, Catalog[1]),
      Submission("WRONG_ANSWER", 0, Catalog[3]),
      Submission("WRONG_ANSWER", 0, Catalog[4]),
      Submission("OK", 0, Catalog[9]) }

RecRatings == {1300, 1500}

RecUsers == {Profile("bob")} \cup {[Profile("alice") EXCEPT !.rating = r] : r \in RecRatings}

RecTagFilters == {<<>>, <<"math">>}

RecRanges == {<<DefaultMinRating, DefaultMaxRating>>, <<1500, 1700>>}

InitRec ==
    /\ InitApp
    /\ pc = "ready"
    /\ output = Null
    /\ input \in [allSubmissions : SeqsUpTo(RecSubmissions, MaxRecSubs),
                  user : RecUsers,
                  selectedTags : RecTagFilters,
                  difficultyRange : RecRanges]

(* fetchRecommendedProblems(analytics, userData.rating, selectedTags,       *)
(* difficultyRange), the catalog fine; output keeps the combined list       *)
CallFetchRecommendedProblems ==
    /\ StartsRecommendation(input.allSubmissions, input.user)
    /\ FunctionDone([candidates |-> Candidates(analytics(input.allSubmissions),
                                               input.selectedTags, input.difficultyRange,
                                               Catalog)])
    /\ recommendedProblems' = Recommended(analytics(input.allSubmissions), input.user.rating,
                                          input.selectedTags, input.difficultyRange, Catalog)
    /\ problemLoading' = FALSE
    /\ UNCHANGED <<handle, userData, loading, allSubmissions, userContests, selectedTags,
                   difficultyRange, inFlightData, inFlightContests, inFlightProblems,
                   requested, tableSubmissions, input>>

(* the same call, the catalog not fine *)
CallFetchRecommendedProblemsFailed(outcome) ==
    /\ StartsRecommendation(input.allSubmissions, input.user)
    /\ outcome # "OK"
    /\ pc = "ready"
    /\ pc' = "failed"
    /\ problemLoading' = FALSE
    /\ UNCHANGED <<handle, userData, loading, allSubmissions, userContests,
                   recommendedProblems, selectedTags, difficultyRange, inFlightData,
                   inFlightContests, inFlightProblems, requested, tableSubmissions, input, output>>

(* if (!userRating || !analyticsData) return; *)
CallFetchRecommendedProblemsSkipped ==
    /\ ~StartsRecommendation(input.allSubmissions, input.user)
    /\ pc = "ready"
    /\ pc' = "skipped"
    /\ UNCHANGED <<appVars, input, output>>

NextRec ==
    \/ CallFetchRecommendedProblems
    \/ \E outcome \in Outcomes : CallFetchRecommendedProblemsFailed(outcome)
    \/ CallFetchRecommendedProblemsSkipped

SpecRec == InitRec /\ [][NextRec]_vars

SameProblem(a, b) == a.contestId = b.contestId /\ a.index = b.index

(* the snapshot holds an accepted submission to the problem *)
AlreadySolved(problem) ==
    \E i \in 1..Len(input.allSubmissions) :
        /\ input.allSubmissions[i].verdict = "OK"
        /\ SameProblem(input.allSubmissions[i].problem, problem)

(* C8: no problem of the list set is already solved: no submission of the   *)
(* snapshot with verdict OK has the contestId and the index of a            *)
(* recommended problem.                                                     *)
C8_NoSolvedRecommended ==
    pc = "done" =>
        \A i \in 1..Len(recommendedProblems) : ~AlreadySolved(recommendedProblems[i])

(* C8: a solved problem with the tags of a recommended one, 50 points from it *)
C8_Witness ==
    /\ pc = "done"
    /\ \E i \in 1..Len(input.allSubmissions), j \in 1..Len(recommendedProblems) :
           /\ input.allSubmissions[i].verdict = "OK"
           /\ input.allSubmissions[i].problem.tags = recommendedProblems[j].tags
           /\ Abs(input.allSubmissions[i].problem.rating - recommendedProblems[j].rating) = 50

(* set (1) of the claim *)
InWeakSet(problem) ==
    LET weakTags == analytics(input.allSubmissions).weakTags
    IN  /\ ~AlreadySolved(problem)
        /\ Range(weakTags) \cap Range(problem.tags) # {}
        /\ "rating" \in DOMAIN problem
        /\ problem.rating \in input.difficultyRange[1]..input.difficultyRange[2]
        /\ input.selectedTags # <<>> =>
               Range(input.selectedTags) \cap Range(problem.tags) # {}

(* set (2) of the claim *)
InPatternSet(problem) ==
    LET patterns == analytics(input.allSubmissions).commonWrongPatterns
    IN  /\ ~AlreadySolved(problem)
        /\ "rating" \in DOMAIN problem
        /\ \E i \in 1..Len(patterns) :
               /\ patterns[i].tag \in Range(problem.tags)
               /\ "rating" \in DOMAIN patterns[i]
               /\ problem.rating - patterns[i].rating \in (0 - 200)..200

(* C9: the candidates are the catalog problems of set (1), in catalog       *)
(* order, followed by those of set (2): unsolved, and (1) with a weak tag,  *)
(* a defined rating inside the difficulty range, ends included, and a       *)
(* selected tag when tags are selected; (2) with the tag of a wrong         *)
(* pattern whose rating is within 200 of the problem's.  A problem without  *)
(* a rating is in neither.                                                  *)
C9_CandidatesAreTwoSets ==
    pc = "done" =>
        /\ output.candidates = SelectSeq(Catalog, InWeakSet) \o SelectSeq(Catalog, InPatternSet)
        /\ \A i \in 1..Len(output.candidates) : "rating" \in DOMAIN output.candidates[i]

(* C9: with the range 1500..1700 and a tag selected, a problem rated 1700   *)
(* is a candidate by set (1) and one rated under 1500 without the selected  *)
(* tag by set (2)                                                           *)
C9_Witness ==
    /\ pc = "done"
    /\ input.difficultyRange = <<1500, 1700>>
    /\ input.selectedTags = <<"math">>
    /\ \E i, j \in 1..Len(output.candidates) :
           /\ i < j
           /\ output.candidates[i].rating = 1700
           /\ output.candidates[j].rating < 1500
           /\ "math" \notin Range(output.candidates[j].tags)

SeqToBag(s) == [x \in Range(s) |-> Cardinality({i \in 1..Len(s) : s[i] = x})]

(* a recommended entry without the two fields added to it *)
CatalogEntry(entry) ==
    [f \in DOMAIN entry \ {"url", "recommendationReason"} |-> entry[f]]

(* |problem.rating - (userRating + 150)| *)
Distance(problem) ==
    LET target == input.user.rating + 150
    IN  IF problem.rating >= target THEN problem.rating - target ELSE target - problem.rating

(* C10: the list set has at most 15 entries, all candidates, in order of    *)
(* non-decreasing |rating - (userRating + 150)|; every candidate left out   *)
(* is at least as far as every entry kept; for userRating 1500 an entry     *)
(* rated 1600 comes before one rated 1800.                                  *)
C10_ClosestFifteen ==
    pc = "done" =>
        LET kept    == [i \in 1..Len(recommendedProblems) |-> CatalogEntry(recommendedProblems[i])]
            leftOut == SeqToBag(output.candidates) (-) SeqToBag(kept)
        IN  /\ Len(kept) <= 15
            /\ Len(kept) = Min(Len(output.candidates), 15)
            /\ SeqToBag(kept) \sqsubseteq SeqToBag(output.candidates)
            /\ \A i, j \in 1..Len(kept) : i < j => Distance(kept[i]) <= Distance(kept[j])
            /\ \A out \in BagToSet(leftOut), in \in Range(kept) : Distance(out) >= Distance(in)
            /\ input.user.rating = 1500 =>
                   \A i, j \in 1..Len(kept) :
                       (kept[i].rating = 1600 /\ kept[j].rating = 1800) => i < j

(* C10: more than 15 candidates for a user rated 1500, entries rated 1600   *)
(* and 1800 among the 15 kept                                               *)
C10_Witness ==
    /\ pc = "done"
    /\ input.user.rating = 1500
    /\ Len(output.candidates) > 15
    /\ Len(recommendedProblems) = 15
    /\ \E i, j \in 1..15 :
           recommendedProblems[i].rating = 1600 /\ recommendedProblems[j].rating = 1800

(* the problem carries a weak tag of the snapshot *)
CarriesWeakTag(problem) ==
    Range(analytics(input.allSubmissions).weakTags) \cap Range(problem.tags) # {}

(* a wrong pattern of the snapshot has its tag on the problem and a rating within 200 of it *)
NearWrongPattern(problem) ==
    LET patterns == analytics(input.allSubmissions).commonWrongPatterns
    IN  \E i \in 1..Len(patterns) :
            /\ patterns[i].tag \in Range(problem.tags)
            /\ "rating" \in DOMAIN patterns[i]
            /\ "rating" \in DOMAIN problem
            /\ problem.rating - patterns[i].rating \in (0 - 200)..200

(* C11: every recommended problem carries one recommendationReason, by      *)
(* priority: "Targets your weak areas" when it has a weak tag, else         *)
(* "Similar to frequently wrong problems" when a wrong pattern has its tag  *)
(* on the problem and a rating within 200, else "Matches your skill level"; *)
(* a problem with both gets the weak-tag reason.                            *)
C11_ReasonByPriority ==
    pc = "done" =>
        \A i \in 1..Len(recommendedProblems) :
            LET entry == recommendedProblems[i]
            IN  /\ "recommendationReason" \in DOMAIN entry
                /\ entry.recommendationReason =
                       IF CarriesWeakTag(entry) THEN "Targets your weak areas"
                       ELSE IF NearWrongPattern(entry)
                            THEN "Similar to frequently wrong problems"
                            ELSE "Matches your skill level"

(* C11: one entry with a weak tag and a near pattern has the weak-tag       *)
(* reason, another without weak tag has the pattern reason                  *)
C11_Witness ==
    /\ pc = "done"
    /\ \E i, j \in 1..Len(recommendedProblems) :
           /\ CarriesWeakTag(recommendedProblems[i])
           /\ NearWrongPattern(recommendedProblems[i])
           /\ recommendedProblems[i].recommendationReason = "Targets your weak areas"
           /\ ~CarriesWeakTag(recommendedProblems[j])
           /\ recommendedProblems[j].recommendationReason = "Similar to frequently wrong problems"

(* C23: no entry of recommendedProblems carries the default reason        *)
(* "Matches your skill level": every problem fetchRecommendedProblems     *)
(* selects has a weak tag of the snapshot or is near one of its wrong     *)
(* patterns, the two conditions getRecommendationReason tests             *)
C23_NeverDefaultReason ==
    pc = "done" =>
        \A i \in 1..Len(recommendedProblems) :
            /\ recommendedProblems[i].recommendationReason # "Matches your skill level"
            /\ CarriesWeakTag(recommendedProblems[i]) \/ NearWrongPattern(recommendedProblems[i])

(* C23: a list is set in which one entry is there for its weak tag alone  *)
(* and another for a wrong pattern alone                                  *)
C23_Witness ==
    /\ pc = "done"
    /\ \E i, j \in 1..Len(recommendedProblems) :
           /\ CarriesWeakTag(recommendedProblems[i])
           /\ ~NearWrongPattern(recommendedProblems[i])
           /\ ~CarriesWeakTag(recommendedProblems[j])
           /\ NearWrongPattern(recommendedProblems[j])

----------------------------------------------------------------------------
(* SpecPatterns: the wrong patterns of the analytics memo, with the counts  *)
(* of the buckets they are taken from                                        *)

MaxPatternSubs == 3

PatternProblems ==
    { Problem(20, "A", 1190, <<"dp">>),
      Problem(20, "B", 1210, <<"dp">>),
      Problem(20, "C", 1250, <<"dp">>),
      Unrated(20, "D", <<"dp">>),
      Problem(10, "A", 1600,
              <<"dp", "greedy", "math", "graphs", "strings", "implementation">>) }

PatternSubmissions ==
    {Submission("WRONG_ANSWER", 0, problem) : problem \in PatternProblems}
        \cup {Submission("OK", 0, Problem(20, "A", 1190, <<"dp">>)),
              Submission("TIME_LIMIT_EXCEEDED", 0, Problem(20, "B", 1210, <<"dp">>))}

InitPatterns ==
    /\ InitApp
    /\ pc = "ready"
    /\ output = Null
    /\ input \in SeqsUpTo(PatternSubmissions, MaxPatternSubs)

(* wrongSubmissions of the memo, and analyzeWrongSubmissionPatterns on it;  *)
(* output keeps the patterns object next to the list returned               *)
CallAnalyzeWrongSubmissionPatterns ==
    /\ FunctionDone([patterns |-> CountAll(PatternKeys(SelectSeq(input, IsWrong)), <<>>),
                     commonWrongPatterns |->
                         analyzeWrongSubmissionPatterns(SelectSeq(input, IsWrong))])
    /\ UNCHANGED <<appVars, input>>

NextPatterns == CallAnalyzeWrongSubmissionPatterns

SpecPatterns == InitPatterns /\ [][NextPatterns]_vars

(* the hundreds nearest to a rating: two of them when it ends in 50 *)
NearestHundreds(rating) ==
    {h \in {100 * b : b \in 0..MaxBucket} :
        \A other \in {100 * b : b \in 0..MaxBucket} : Abs(rating - h) <= Abs(rating - other)}

(* the input is non-OK submissions on rated problems tagged tag alone *)
WrongOnOneTag(tag) ==
    /\ Len(input) > 0
    /\ \A i \in 1..Len(input) :
           /\ input[i].verdict # "OK"
           /\ input[i].problem.tags = <<tag>>
           /\ "rating" \in DOMAIN input[i].problem

(* the hundreds that are nearest to every rating of the input *)
SharedHundreds ==
    {h \in {100 * b : b \in 0..MaxBucket} :
        \A i \in 1..Len(input) : h \in NearestHundreds(input[i].problem.rating)}

(* C12: non-OK submissions that share one tag and whose ratings have the    *)
(* same nearest hundred fall into one bucket, counted once per submission,  *)
(* and the one pattern returned has that hundred for rating: 1190, 1210 and *)
(* 1250 give {dp, 1200} counted 3 times.                                    *)
C12_NearestHundredBucket ==
    (pc = "done" /\ WrongOnOneTag("dp") /\ SharedHundreds # {}) =>
        \E h \in SharedHundreds :
            /\ output.commonWrongPatterns = <<[tag |-> "dp", rating |-> h]>>
            /\ Len(output.patterns) = 1
            /\ output.patterns[1].n = Len(input)

(* the (submission, tag) pairs of the non-OK submissions on rated problems *)
RatedWrongPairs ==
    {<<i, j>> \in (1..Len(input)) \X (1..6) :
        /\ input[i].verdict # "OK"
        /\ "rating" \in DOMAIN input[i].problem
        /\ j <= Len(input[i].problem.tags)}

(* how many of them carry the tag of the entry with a rating in its bucket *)
Occurrences(entry) ==
    Cardinality({p \in RatedWrongPairs :
        /\ input[p[1]].problem.tags[p[2]] = entry.tag
        /\ input[p[1]].problem.rating >= entry.rating - 50
        /\ input[p[1]].problem.rating < entry.rating + 50})

RECURSIVE SumCounts(_)
SumCounts(obj) == IF obj = <<>> THEN 0 ELSE Head(obj).n + SumCounts(Tail(obj))

(* C13: only non-OK submissions on rated problems add to the buckets (one   *)
(* count per tag of such a submission, none for an unrated problem); every  *)
(* entry of commonWrongPatterns has an integer rating that is a multiple of *)
(* 100; at most 5 entries, by descending occurrence count.                  *)
C13_OnlyRatedContribute ==
    pc = "done" =>
        LET top == output.commonWrongPatterns
        IN  /\ SumCounts(output.patterns) = Cardinality(RatedWrongPairs)
            /\ \A i \in 1..Len(top) :
                   "rating" \in DOMAIN top[i] /\ top[i].rating % 100 = 0
            /\ Len(top) <= 5
            /\ \A i, j \in 1..Len(top) :
                   i < j => Occurrences(top[i]) >= Occurrences(top[j])

----------------------------------------------------------------------------
(* SpecKeys: analyzeWrongSubmissionPatterns on rated problems, some of them *)
(* with tags of the judge that contain a '-'                                *)

MaxKeySubs == 3

KeyProblems ==
    { Problem(30, "A", 1600, <<"2-sat">>),
      Problem(30, "B", 1640, <<"2-sat", "graphs">>),
      Problem(30, "C", 1900, <<"meet-in-the-middle">>),
      Problem(30, "D", 1600, <<"dp">>),
      Problem(30, "E", 1650, <<"dp", "graphs">>) }

KeySubmissions ==
    {Submission("WRONG_ANSWER", 0, problem) : problem \in KeyProblems}
        \cup {Submission("OK", 0, Problem(30, "D", 1600, <<"dp">>))}

InitKeys ==
    /\ InitApp
    /\ pc = "ready"
    /\ output = Null
    /\ input \in SeqsUpTo(KeySubmissions, MaxKeySubs)

SpecKeys == InitKeys /\ [][NextPatterns]_vars

(* the {tag, rating} pairs of the non-OK submissions: every tag of the      *)
(* problem with the hundred nearest to its rating (a rating ending in 50    *)
(* goes up)                                                                 *)
WrongPairs ==
    {[tag |-> input[i].problem.tags[j],
      rating |-> ((input[i].problem.rating + 50) \div 100) * 100] :
        <<i, j>> \in {p \in (1..Len(input)) \X (1..2) :
                         /\ input[p[1]].verdict # "OK"
                         /\ p[2] <= Len(input[p[1]].problem.tags)}}

(* C24: the key of a pattern round-trips, also for a tag with a '-': when   *)
(* at most 5 (tag, bucket) pairs occur, so that each reaches the top 5, the *)
(* list returned holds every pair {tag: t, rating: round(r/100)*100} once   *)
(* and nothing else (no two pairs are merged); in every case a returned tag *)
(* is a tag of some input submission                                        *)
C24_KeyRoundTrips ==
    pc = "done" =>
        LET top == output.commonWrongPatterns
        IN  /\ Cardinality(WrongPairs) <= PatternsLimit =>
                   /\ Range(top) = WrongPairs
                   /\ Len(top) = Cardinality(WrongPairs)
            /\ \A i \in 1..Len(top) : \E pair \in WrongPairs : top[i].tag = pair.tag

----------------------------------------------------------------------------
(* calculateContestPerformance *)

(* a performance that calls an unchanged rating good *)
PerformanceGoodAtZero(contest) ==
    [ratingChange |-> contest.newRating - contest.oldRating,
     performance |-> IF contest.newRating >= contest.oldRating
                     THEN "Good" ELSE "Needs Improvement"] @@ contest

(* {...contest, ratingChange, performance} *)
Performance(contest) ==
    [ratingChange |-> contest.newRating - contest.oldRating,
     performance |-> IF contest.newRating > contest.oldRating
                     THEN "Good" ELSE "Needs Improvement"] @@ contest

(* a reducer that lets a later contest with the same change take over *)
BetterOrLater(best, current) ==
    IF current.ratingChange >= best.ratingChange THEN current ELSE best

(* (best, current) => current.ratingChange > best.ratingChange ? current : best *)
Better(best, current) ==
    IF current.ratingChange > best.ratingChange THEN current ELSE best

(* (worst, current) => current.ratingChange < worst.ratingChange ? current : worst *)
Worse(worst, current) ==
    IF current.ratingChange < worst.ratingChange THEN current ELSE worst

(* performances.reduce(Better) from position i on; the first element is the initial value *)
RECURSIVE BestFrom(_, _, _)
BestFrom(best, performances, i) ==
    IF i > Len(performances) THEN best
    ELSE BestFrom(Better(best, performances[i]), performances, i + 1)

(* performances.reduce(Worse) from position i on *)
RECURSIVE WorstFrom(_, _, _)
WorstFrom(worst, performances, i) ==
    IF i > Len(performances) THEN worst
    ELSE WorstFrom(Worse(worst, performances[i]), performances, i + 1)

(* performances.reduce((sum, p) => sum + p.ratingChange, 0) *)
RECURSIVE SumChanges(_)
SumChanges(s) == IF s = <<>> THEN 0 ELSE Head(s).ratingChange + SumChanges(Tail(s))

(* Math.round(sum / n) for n > 0: the nearest integer, halves up *)
RoundQuotient(sum, n) == (2 * sum + n) \div (2 * n)

calculateContestPerformance(contests) ==
    IF Len(contests) = 0 THEN Null
    ELSE LET performances == [i \in 1..Len(contests) |-> Performance(contests[i])]
         IN  [performances |-> performances,
              avgRatingChange |-> RoundQuotient(SumChanges(performances), Len(performances)),
              bestContest |-> BestFrom(performances[1], performances, 2),
              worstContest |-> WorstFrom(performances[1], performances, 2),
              totalContests |-> Len(performances),
              positivePerformance |->
                  Len(SelectSeq(performances, LAMBDA p : p.ratingChange > 0))]

----------------------------------------------------------------------------
(* SpecPerformance: calculateContestPerformance on short contest lists *)

MaxPerfContests == 3

PerfContests ==
    { RatingChange("alice", 1, 1400, 1450),
      RatingChange("alice", 2, 1450, 1420),
      RatingChange("alice", 3, 1500, 1550),
      RatingChange("alice", 4, 1500, 1470),
      RatingChange("alice", 5, 1500, 1500),
      RatingChange("alice", 6, 1400, 1405) }

InitPerformance ==
    /\ InitApp
    /\ pc = "ready"
    /\ output = Null
    /\ input \in SeqsUpTo(PerfContests, MaxPerfContests)

CallCalculateContestPerformance ==
    /\ FunctionDone(calculateContestPerformance(input))
    /\ UNCHANGED <<appVars, input>>

NextPerformance == CallCalculateContestPerformance

SpecPerformance == InitPerformance /\ [][NextPerformance]_vars

Change(contest) == contest.newRating - contest.oldRating

(* the contest record a result entry was made from *)
ContestOf(entry) ==
    [f \in DOMAIN entry \ {"ratingChange", "performance"} |-> entry[f]]

(* the first position of the list whose change is best among all (sign 1) or worst (sign -1) *)
FirstExtreme(sign) ==
    CHOOSE i \in 1..Len(input) :
        /\ \A j \in 1..Len(input) : sign * Change(input[j]) <= sign * Change(input[i])
        /\ \A j \in 1..(i - 1) : sign * Change(input[j]) < sign * Change(input[i])

(* C14: for a non-empty list bestContest is a contest of maximal            *)
(* ratingChange and worstContest one of minimal ratingChange, the first of  *)
(* the list among those tied; for the empty list the result is null.        *)
C14_BestAndWorstContest ==
    pc = "done" =>
        IF input = <<>> THEN output = Null
        ELSE /\ output # Null
             /\ ContestOf(output.bestContest) = input[FirstExtreme(1)]
             /\ output.bestContest.ratingChange = Change(input[FirstExtreme(1)])
             /\ ContestOf(output.worstContest) = input[FirstExtreme(0 - 1)]
             /\ output.worstContest.ratingChange = Change(input[FirstExtreme(0 - 1)])

(* C14: two different contests tied for the best change, +50, of which the  *)
(* earlier is the one returned                                              *)
C14_Witness ==
    /\ pc = "done"
    /\ Len(input) = 3
    /\ \E i, j \in 1..3 :
           /\ i < j
           /\ input[i] # input[j]
           /\ Change(input[i]) = Change(input[j])
           /\ ContestOf(output.bestContest) = input[i]
    /\ output.bestContest.ratingChange = 50

RECURSIVE SumOfChanges(_, _)
SumOfChanges(contests, i) ==
    IF i > Len(contests) THEN 0 ELSE Change(contests[i]) + SumOfChanges(contests, i + 1)

(* C15: for a non-empty list every performance has ratingChange = newRating *)
(* - oldRating and performance "Good" exactly when the change is > 0, else  *)
(* "Needs Improvement"; positivePerformance is the number of "Good"         *)
(* contests, totalContests the length of the list, avgRatingChange the sum  *)
(* of the changes over the length rounded to an integer (+50 and -30 give   *)
(* 10).                                                                     *)
C15_PerformanceNumbers ==
    (pc = "done" /\ input # <<>>) =>
        LET n   == Len(input)
            sum == SumOfChanges(input, 1)
        IN  /\ Len(output.performances) = n
            /\ \A i \in 1..n :
                   /\ ContestOf(output.performances[i]) = input[i]
                   /\ output.performances[i].ratingChange = Change(input[i])
                   /\ output.performances[i].performance =
                          IF Change(input[i]) > 0 THEN "Good" ELSE "Needs Improvement"
            /\ output.positivePerformance =
                   Cardinality({i \in 1..n : output.performances[i].performance = "Good"})
            /\ output.totalContests = n
            /\ 2 * Abs(n * output.avgRatingChange - sum) <= n
            /\ ({Change(input[i]) : i \in 1..n} = {50, 0 - 30} /\ n = 2)
                   => output.avgRatingChange = 10

(* C15: the changes +50 and -30 average to 10, with one good contest *)
C15_Witness ==
    /\ pc = "done"
    /\ input = <<RatingChange("alice", 1, 1400, 1450), RatingChange("alice", 2, 1450, 1420)>>
    /\ output.avgRatingChange = 10
    /\ output.positivePerformance = 1

----------------------------------------------------------------------------
(* SpecAnalytics: the analytics memo on a submission list and on the same   *)
(* submissions in another order                                              *)

MaxAnalyticsSubs == 3

AnalyticsProblems ==
    { Problem(30, "A", 1600, <<"dp">>),
      Problem(30, "B", 1250, <<"dp", "greedy">>),
      Unrated(30, "C", <<"greedy">>) }

AnalyticsSubmissions ==
    {Submission(verdict, 0, problem) :
        verdict \in {"OK", "WRONG_ANSWER"}, problem \in AnalyticsProblems}

Reordered(s) == {[i \in 1..Len(s) |-> s[p[i]]] : p \in Permutations(1..Len(s))}

InitAnalytics ==
    /\ InitApp
    /\ pc = "ready"
    /\ output = Null
    /\ input \in UNION {[allSubmissions : {s}, reordered : Reordered(s)] :
                            s \in SeqsUpTo(AnalyticsSubmissions, MaxAnalyticsSubs)}

(* the memo for allSubmissions, and the memo for the reordered list *)
CallAnalyticsTwice ==
    /\ FunctionDone([analytics |-> analytics(input.allSubmissions),
                     reordered |-> analytics(input.reordered)])
    /\ UNCHANGED <<appVars, input>>

NextAnalytics == CallAnalyticsTwice

SpecAnalytics == InitAnalytics /\ [][NextAnalytics]_vars

RatedSolved ==
    {i \in 1..Len(input.allSubmissions) :
        /\ input.allSubmissions[i].verdict = "OK"
        /\ "rating" \in DOMAIN input.allSubmissions[i].problem}

RECURSIVE SumOfRatings(_)
SumOfRatings(positions) ==
    IF positions = {} THEN 0
    ELSE LET i == CHOOSE i \in positions : TRUE
         IN  input.allSubmissions[i].problem.rating + SumOfRatings(positions \ {i})

(* C17: averageDifficulty is the mean rating over the OK submissions on     *)
(* rated problems only, rounded to the nearest integer, and 0 when there is *)
(* none; an OK submission on an unrated problem changes neither the sum nor *)
(* the number divided by.                                                   *)
C17_AverageOverRatedOnly ==
    (pc = "done" /\ output.analytics # Null) =>
        IF RatedSolved = {} THEN output.analytics.averageDifficulty = 0
        ELSE 2 * Abs(output.analytics.averageDifficulty * Cardinality(RatedSolved)
                         - SumOfRatings(RatedSolved)) <= Cardinality(RatedSolved)

AnalyticsTags == UNION {Range(problem.tags) : problem \in AnalyticsProblems}

(* how many submissions of the list with an OK (ok) or other (~ok) verdict carry the tag *)
Carrying(subs, tag, ok) ==
    Cardinality({i \in 1..Len(subs) :
        /\ (subs[i].verdict = "OK") = ok
        /\ tag \in Range(subs[i].problem.tags)})

(* C18: the memo of a reordered list has the same count for every tag in    *)
(* tagStats and in wrongTagStats and the same accuracy; each counter is the *)
(* number of OK (non-OK) submissions that carry the tag, so the counters of *)
(* a list are never below those of a prefix of it.                          *)
C18_OrderDoesNotMatter ==
    (pc = "done" /\ input.allSubmissions # <<>>) =>
        LET a == output.analytics
            r == output.reordered
        IN  /\ r # Null
            /\ a.accuracy = r.accuracy
            /\ \A tag \in AnalyticsTags :
                   /\ Count(a.tagStats, tag) = Count(r.tagStats, tag)
                   /\ Count(a.wrongTagStats, tag) = Count(r.wrongTagStats, tag)
                   /\ Count(a.tagStats, tag) = Carrying(input.allSubmissions, tag, TRUE)
                   /\ Count(a.wrongTagStats, tag) = Carrying(input.allSubmissions, tag, FALSE)
                   /\ \A k \in 1..Len(input.allSubmissions) :
                          LET before == analytics(SubSeq(input.allSubmissions, 1, k))
                          IN  /\ Count(before.tagStats, tag) <= Count(a.tagStats, tag)
                              /\ Count(before.wrongTagStats, tag) <= Count(a.wrongTagStats, tag)
            /\ {a.tagStats[i].key : i \in 1..Len(a.tagStats)}
                   = {r.tagStats[i].key : i \in 1..Len(r.tagStats)}
            /\ {a.wrongTagStats[i].key : i \in 1..Len(a.wrongTagStats)}
                   = {r.wrongTagStats[i].key : i \in 1..Len(r.wrongTagStats)}

(* C18: the reordered list inserts the tags in another order, with the same counts *)
C18_Witness ==
    /\ pc = "done"
    /\ Len(input.allSubmissions) = 3
    /\ input.reordered # input.allSubmissions
    /\ output.analytics.tagStats # output.reordered.tagStats
    /\ Count(output.analytics.tagStats, "dp") = 2
    /\ Count(output.reordered.tagStats, "dp") = 2

----------------------------------------------------------------------------
(* SpecOrder: the memo on a list and on a reordering of it, for submissions *)
(* whose tags and pattern keys tie and of which more than 5 can qualify     *)

MaxOrderSubs == 3

OrderProblems ==
    { Problem(40, "A", 1600,
              <<"dp", "greedy", "math", "graphs", "strings", "implementation">>),
      Problem(40, "B", 1600,
              <<"implementation", "dp", "greedy", "math", "graphs", "strings">>),
      Unrated(40, "C", <<"dp">>) }

OrderSubmissions ==
    {Submission("WRONG_ANSWER", 0, problem) : problem \in OrderProblems}
        \cup {Submission("OK", 0, Problem(40, "A", 1600,
                              <<"dp", "greedy", "math", "graphs", "strings", "implementation">>)),
              Submission("OK", 0, Unrated(40, "C", <<"dp">>))}

InitOrder ==
    /\ InitApp
    /\ pc = "ready"
    /\ output = Null
    /\ input \in UNION {[allSubmissions : {s}, reordered : Reordered(s)] :
                            s \in SeqsUpTo(OrderSubmissions, MaxOrderSubs)}

SpecOrder == InitOrder /\ [][NextAnalytics]_vars

OrderTags == UNION {Range(problem.tags) : problem \in OrderProblems}

(* the places (submission, tag position) where a submission of the list     *)
(* with an OK (ok) or other (~ok) verdict carries the tag, as 10 * i + j    *)
Places(subs, tag, ok) ==
    {10 * i + j : <<i, j>> \in
        {q \in (1..Len(subs)) \X (1..6) :
            /\ (subs[q[1]].verdict = "OK") = ok
            /\ q[2] <= Len(subs[q[1]].problem.tags)
            /\ subs[q[1]].problem.tags[q[2]] = tag}}

(* the {tag, rating} pair a non-OK submission adds for its j-th tag: the    *)
(* rating is the nearest hundred, and missing when the problem has none     *)
PairAt(subs, i, j) ==
    IF "rating" \in DOMAIN subs[i].problem
    THEN [tag |-> subs[i].problem.tags[j],
          rating |-> ((subs[i].problem.rating + 50) \div 100) * 100]
    ELSE [tag |-> subs[i].problem.tags[j]]

(* the places where a non-OK submission of the list adds the pair *)
PairPlaces(subs, pair) ==
    {10 * i + j : <<i, j>> \in
        {q \in (1..Len(subs)) \X (1..6) :
            /\ subs[q[1]].verdict # "OK"
            /\ q[2] <= Len(subs[q[1]].problem.tags)
            /\ PairAt(subs, q[1], q[2]) = pair}}

Least(places) == CHOOSE x \in places : \A y \in places : x <= y

(* where the value stands in the list, 0 when it is not in it *)
PlaceIn(list, v) ==
    IF v \in Range(list) THEN CHOOSE i \in 1..Len(list) : list[i] = v ELSE 0

(* entries are the qualifying values v with their sort key k and their     *)
(* first place f: the list holds the first 5 of them, ranked by ascending  *)
(* key and, under equal keys, by first place                               *)
RankedByKey(list, entries) ==
    /\ Range(list) \subseteq {e.v : e \in entries}
    /\ Len(list) = Cardinality(Range(list))
    /\ Len(list) = Min(Cardinality(entries), 5)
    /\ \A e1, e2 \in entries :
           (e1.k < e2.k \/ (e1.k = e2.k /\ e1.f < e2.f)) =>
               /\ PlaceIn(list, e2.v) # 0 => PlaceIn(list, e1.v) # 0
               /\ PlaceIn(list, e2.v) # 0 => PlaceIn(list, e1.v) < PlaceIn(list, e2.v)

(* the tags of the list with a non-OK submission, at least 3 submissions    *)
(* and fewer than half of them OK, keyed by their number of non-OK ones     *)
WeakOf(subs) ==
    {[v |-> tag, k |-> Carrying(subs, tag, FALSE), f |-> Least(Places(subs, tag, FALSE))] :
        tag \in {t \in OrderTags :
                    /\ Carrying(subs, t, FALSE) > 0
                    /\ Carrying(subs, t, TRUE) + Carrying(subs, t, FALSE) >= 3
                    /\ Carrying(subs, t, TRUE) < Carrying(subs, t, FALSE)}}

(* the tags of the list with an OK submission, most OK submissions first *)
SolvedOf(subs) ==
    {[v |-> tag, k |-> 0 - Carrying(subs, tag, TRUE), f |-> Least(Places(subs, tag, TRUE))] :
        tag \in {t \in OrderTags : Carrying(subs, t, TRUE) > 0}}

(* the pairs of the non-OK submissions of the list, most frequent first *)
PairsOf(subs) ==
    {[v |-> pair, k |-> 0 - Cardinality(PairPlaces(subs, pair)),
      f |-> Least(PairPlaces(subs, pair))] :
        pair \in {PairAt(subs, q[1], q[2]) : q \in
                     {q \in (1..Len(subs)) \X (1..6) :
                         subs[q[1]].verdict # "OK" /\ q[2] <= Len(subs[q[1]].problem.tags)}}}

(* the three lists of a memo are ranked by count, equal counts by first     *)
(* place in the list the memo was computed from                             *)
RankedLists(subs, memo) ==
    /\ RankedByKey(memo.weakTags, WeakOf(subs))
    /\ RankedByKey(memo.strongTags, SolvedOf(subs))
    /\ RankedByKey(memo.commonWrongPatterns, PairsOf(subs))

(* no two entries have the same count *)
NoTies(entries) == \A e1, e2 \in entries : e1 # e2 => e1.k # e2.k

(* no two of the qualifying tags (pairs) of the list have the same count *)
NoEqualCounts(subs) == NoTies(WeakOf(subs)) /\ NoTies(SolvedOf(subs)) /\ NoTies(PairsOf(subs))

C25_WitnessNoTies ==
    /\ pc = "done"
    /\ Len(input.allSubmissions) = 3
    /\ input.reordered # input.allSubmissions
    /\ NoEqualCounts(input.allSubmissions)
    /\ output.analytics.strongTags # <<>>
    /\ output.analytics.commonWrongPatterns # <<>>

----------------------------------------------------------------------------
(* The component of src/src/App.jsx: handle, userData, submissions (here    *)
(* tableSubmissions), loading and allSubmissions, and its fetchData, which  *)
(* awaits the profile, then the submissions, and tests no status.           *)

TableLimit == 200

(* what the App.jsx component never touches *)
NotInAppJsx == <<userContests, recommendedProblems, problemLoading, selectedTags,
                 difficultyRange, inFlightContests, inFlightProblems, input, output, pc>>

(* onChange of the input box *)
SetHandleAppJsx(h) ==
    /\ h # handle
    /\ handle' = h
    /\ UNCHANGED <<userData, tableSubmissions, allSubmissions, loading, inFlightData,
                   requested, NotInAppJsx>>

(* fetchData with no handle: returns at once *)
AnalyzeNothingAppJsx ==
    /\ handle = ""
    /\ UNCHANGED vars

(* fetchData up to its first await *)
AnalyzeAppJsx ==
    /\ handle # ""
    /\ BagCardinality(inFlightData) < MaxInFlight
    /\ loading' = TRUE
    /\ inFlightData' = inFlightData (+) One(handle)
    /\ requested' = handle
    /\ UNCHANGED <<handle, userData, tableSubmissions, allSubmissions, NotInAppJsx>>

(* an await that throws: no response, or a body that is not JSON *)
Throws(outcome) == outcome \in {"malformed", "transport"}

(* the payload has a result: an answer with status "FAILED" has a comment and no result *)
HasResult(outcome) == outcome = "OK"

(* fetchData after its awaits.  The three setters are called in turn inside *)
(* the try block: setUserData(userInfo.result[0]) throws when the profile   *)
(* payload has no result, statusData.result.slice throws when the other has *)
(* none, and a setter already called keeps its effect.                      *)
fetchDataAppJsx(h, profile, status) ==
    /\ BagIn(h, inFlightData)
    /\ inFlightData' = inFlightData (-) One(h)
    /\ IF Throws(profile) \/ Throws(status) \/ ~HasResult(profile)
       THEN UNCHANGED <<userData, tableSubmissions, allSubmissions>>
       ELSE /\ userData' = Profile(h)
            /\ IF HasResult(status)
               THEN /\ tableSubmissions' = Slice(Submissions(h), TableLimit)
                    /\ allSubmissions' = Submissions(h)
               ELSE UNCHANGED <<tableSubmissions, allSubmissions>>
    /\ loading' = FALSE
    /\ UNCHANGED <<handle, requested, NotInAppJsx>>

NextAppJsx ==
    \/ \E h \in Handles \cup {""} : SetHandleAppJsx(h)
    \/ AnalyzeNothingAppJsx
    \/ AnalyzeAppJsx
    \/ \E h \in Handles, profile \in Outcomes, status \in Outcomes :
           fetchDataAppJsx(h, profile, status)

SpecAppJsx == Init /\ [][NextAppJsx]_vars

(* C19: in src/src/App.jsx a fetchData one of whose two requests fails or   *)
(* returns a payload without a result sets none of userData, submissions    *)
(* and allSubmissions: the three are always the answers of one handle, or   *)
(* still unset.                                                             *)
C19_NoPartialSuccess ==
    \/ userData = Null /\ tableSubmissions = <<>> /\ allSubmissions = <<>>
    \/ \E h \in Handles :
           /\ userData = Profile(h)
           /\ tableSubmissions = Submissions(h)
           /\ allSubmissions = Submissions(h)

----------------------------------------------------------------------------
(* The streaks of the analytics memo of src/src/App.jsx *)

RecentDays == 7

(* [...allSubmissions].sort((a, b) => a.creationTimeSeconds - b.creationTimeSeconds) *)
timeSorted(allSubs) ==
    LET sorted == StableSortByKey([i \in 1..Len(allSubs) |->
                                      [k |-> allSubs[i].creationTimeSeconds, v |-> allSubs[i]]])
    IN  [i \in 1..Len(sorted) |-> sorted[i].v]

(* the forEach over timeSorted from position i on: uniqueDays, tempStreak, maxStreak *)
RECURSIVE StreakForEach(_, _, _, _, _, _)
StreakForEach(zone, sorted, i, uniqueDays, tempStreak, maxStreak) ==
    IF i > Len(sorted) THEN maxStreak
    ELSE LET date == toDateString(zone, sorted[i].creationTimeSeconds)
         IN  IF sorted[i].verdict = "OK" /\ date \notin uniqueDays
             THEN StreakForEach(zone, sorted, i + 1, uniqueDays \cup {date},
                                tempStreak + 1, Max(maxStreak, tempStreak + 1))
             ELSE StreakForEach(zone, sorted, i + 1, uniqueDays, tempStreak, maxStreak)

(* the dates of the last 7 days, today included *)
last7Days(zone, now) == {toDateString(zone, now) - i : i \in 0..(RecentDays - 1)}

(* recentDays: the dates among them with an OK submission *)
recentDays(zone, now, sorted) ==
    {toDateString(zone, sorted[i].creationTimeSeconds) :
        i \in {j \in 1..Len(sorted) :
                  /\ toDateString(zone, sorted[j].creationTimeSeconds) \in last7Days(zone, now)
                  /\ sorted[j].verdict = "OK"}}

(* streaks: {current: currentStreak, max: maxStreak}; the memo is null for the empty list *)
streaksAppJsx(zone, now, allSubs) ==
    IF Len(allSubs) = 0 THEN Null
    ELSE [current |-> Cardinality(recentDays(zone, now, timeSorted(allSubs))),
          max     |-> StreakForEach(zone, timeSorted(allSubs), 1, {}, 0, 0)]

CallStreaksAppJsx ==
    /\ FunctionDone(streaksAppJsx(input.zone, input.now, input.submissions))
    /\ UNCHANGED <<appVars, input>>

NextStreakAppJsx == CallStreaksAppJsx

SpecStreakAppJsx == InitStreak /\ [][NextStreakAppJsx]_vars

(* C20: in src/src/App.jsx streaks.max is the length of the longest run of  *)
(* consecutive calendar days with an OK submission; a gap of more than one  *)
(* day starts the run again at 1: solved days 1, 2, 3 and 5 give max 3.     *)
C20_AppJsxMaxIsLongestRun ==
    (pc = "done" /\ output # Null) =>
        /\ output.max = LongestRun(SolvedDays)
        /\ SolvedDays = {1, 2, 3, 5} => output.max = 3

====
